---- MODULE Spec2Model ----
(***************************************************************************)
(* A model of the truthy crate (src/src/lib.rs): the Truthy trait with its *)
(* provided methods, the Truthy implementations of the built-in types,     *)
(* and the truthy! macro_rules rewriter.  The crate is modelled as built   *)
(* with the "either" and "and-or" features enabled.                        *)
(*                                                                         *)
(* Rust values are records tagged by their type in the field ty.           *)
(*   integers : [ty, bytes]   two's complement bytes, little endian        *)
(*   floats   : [ty, sign, exp, mant]   the IEEE 754 fields                *)
(*   bool     : [ty, b]                                                    *)
(*   unit     : [ty]                                                       *)
(*   str,&str : [ty, chars]                                                *)
(*   Option   : [ty, tag, inner] / [ty, tag, absent]                       *)
(*   Result   : [ty, tag, inner] / [ty, tag, inner, absent]                *)
(*   Either   : [ty, tag, inner, absent]                                   *)
(*   [T]      : [ty, elems]                                                *)
(*   tuples   : [ty, fields]                                               *)
(*   char     : [ty, c]       a type with no Truthy implementation         *)
(* The field absent is the type parameter that the payload does not show:  *)
(* T of None::<T>, T of Err(e): Result<T, E>, R of Left(l): Either<L, R>   *)
(* and L of Right(r): Either<L, R>.                                        *)
(***************************************************************************)
EXTENDS Integers, Sequences, FiniteSets

VARIABLES
    val,        \* the receiver (self) of the trait method being called
    arg,        \* the second argument of the call (other, or the producer f)
    op,         \* the method called: "none" before any call
    pc,         \* "ready", "or_else" (inside or_else), "done"
    ret,        \* the value returned
    fcalls,     \* how many times the producer passed to or_else has run
    tokens,     \* the token stream handed to truthy!
    stage,      \* "source", "expanded", "rejected", "evaluated"
    expansion,  \* the expression truthy! expanded to
    env,        \* the truthiness of the identifiers a, b, c at run time
    result,     \* the value of the expansion
    calls       \* the positions (in tokens) whose .truthy() ran, in order

vars == <<val, arg, op, pc, ret, fcalls, tokens, stage, expansion, env, result, calls>>

traitVars == <<val, arg, op, pc, ret, fcalls>>
macroVars == <<tokens, stage, expansion, env, result, calls>>

(***************************************************************************)
(* Bounds of the model.                                                    *)
(***************************************************************************)
MaxDepth == 2       \* nesting depth of Option / Result / Either values
MaxStrLen == 2      \* longest string
MaxSliceLen == 3    \* longest slice
MaxLen == 6         \* longest token stream handed to truthy!

(***************************************************************************)
(* The value universe.                                                     *)
(***************************************************************************)
SignedTypes == {"i8", "i16", "i32", "i64", "i128", "isize"}
UnsignedTypes == {"u8", "u16", "u32", "u64", "u128", "usize"}
IntTypes == SignedTypes \cup UnsignedTypes
FloatTypes == {"f32", "f64"}

\* size_of::<T>() of the integer types (isize/usize on a 64-bit target)
SizeOf(t) ==
    CASE t \in {"i8", "u8"} -> 1
      [] t \in {"i16", "u16"} -> 2
      [] t \in {"i32", "u32"} -> 4
      [] t \in {"i64", "u64", "isize", "usize"} -> 8
      [] t \in {"i128", "u128"} -> 16

IntVal(t, bs) == [ty |-> t, bytes |-> bs]
ZeroBytes(n) == [i \in 1..n |-> 0]
OneByte(n, i, b) == [j \in 1..n |-> IF j = i THEN b ELSE 0]
\* all bits set below the top byte, top byte as given
TopByte(n, b) == [j \in 1..n |-> IF j = n THEN b ELSE 255]

\* 0, every value with a single non-zero byte (1, 256, ..., MIN of the signed
\* types), -1 / the unsigned MAX (all bits set) and the signed MAX
IntValues(t) ==
    LET n == SizeOf(t) IN
    {IntVal(t, ZeroBytes(n))}
      \cup {IntVal(t, OneByte(n, i, b)) : i \in 1..n, b \in {1, 128, 255}}
      \cup {IntVal(t, TopByte(n, 255)), IntVal(t, TopByte(n, 127))}

IsNegative(v) == v.ty \in SignedTypes /\ v.bytes[Len(v.bytes)] >= 128
IsMin(v) == v.ty \in SignedTypes /\ v.bytes = OneByte(Len(v.bytes), Len(v.bytes), 128)
IsMax(v) ==
    \/ v.ty \in SignedTypes /\ v.bytes = TopByte(Len(v.bytes), 127)
    \/ v.ty \in UnsignedTypes /\ v.bytes = TopByte(Len(v.bytes), 255)

\* the all-ones exponent of the IEEE 754 format
ExpMax(t) == IF t = "f32" THEN 255 ELSE 2047
Float(t, s, e, m) == [ty |-> t, sign |-> s, exp |-> e, mant |-> m]
\* +-0, subnormals, 1.0-like normals, +-inf, NaNs
FloatValues(t) ==
    {Float(t, s, e, m) : s \in {0, 1}, e \in {0, 1, ExpMax(t)}, m \in {0, 1}}
IsNaN(x) == x.exp = ExpMax(x.ty) /\ x.mant # 0
IsZero(x) == x.exp = 0 /\ x.mant = 0
\* f32::eq / f64::eq: IEEE 754 equality
FloatEq(x, y) == ~IsNaN(x) /\ ~IsNaN(y) /\ ((IsZero(x) /\ IsZero(y)) \/ x = y)

Bool(b) == [ty |-> "bool", b |-> b]
Unit == [ty |-> "unit"]
Char(c) == [ty |-> "char", c |-> c]
Str(t, cs) == [ty |-> t, chars |-> cs]
Some(v) == [ty |-> "option", tag |-> "Some", inner |-> v]
None(T) == [ty |-> "option", tag |-> "None", absent |-> T]
Ok(v) == [ty |-> "result", tag |-> "Ok", inner |-> v]
Err(e, T) == [ty |-> "result", tag |-> "Err", inner |-> e, absent |-> T]
Left(v, R) == [ty |-> "either", tag |-> "Left", inner |-> v, absent |-> R]
Right(v, L) == [ty |-> "either", tag |-> "Right", inner |-> v, absent |-> L]
Slice(es) == [ty |-> "slice", elems |-> es]
Tuple(fs) == [ty |-> "tuple", fields |-> fs]
Nil == [ty |-> "nil"]

\* the type of a value, as far as the impls of Truthy tell types apart:
\* Option<T>, Result<T, _>, Either<L, R>, the tuples by their arity, and
\* every other type by its name
RECURSIVE TypeOf(_)
TypeOf(v) ==
    CASE v.ty = "option" ->
           [ty |-> "option",
            arg |-> IF v.tag = "Some" THEN TypeOf(v.inner) ELSE v.absent]
      [] v.ty = "result" ->
           [ty |-> "result",
            arg |-> IF v.tag = "Ok" THEN TypeOf(v.inner) ELSE v.absent]
      [] v.ty = "either" ->
           [ty |-> "either",
            l |-> IF v.tag = "Left" THEN TypeOf(v.inner) ELSE v.absent,
            r |-> IF v.tag = "Right" THEN TypeOf(v.inner) ELSE v.absent]
      [] v.ty = "tuple" -> [ty |-> "tuple", arity |-> Len(v.fields)]
      [] OTHER -> [ty |-> v.ty]

\* the types given to the parameter a value does not show: bool, which is
\* Truthy, and char, which is not
AbsentTypes == {[ty |-> "bool"], [ty |-> "char"]}

SeqsUpTo(S, n) == UNION {[1..k -> S] : k \in 0..n}

StrValues == {Str(t, cs) : t \in {"str", "&str"}, cs \in SeqsUpTo({" ", "x"}, MaxStrLen)}
\* slices of (), of bool and of char (a type that is not Truthy)
SliceValues ==
    {Slice(es) : es \in SeqsUpTo({Unit}, MaxSliceLen)
                      \cup SeqsUpTo({Bool(TRUE), Bool(FALSE)}, MaxSliceLen)
                      \cup SeqsUpTo({Char("c")}, MaxSliceLen)}

\* the largest tuple arity impl_truthy_tuple! is invoked for
MaxTupleArity == 12
\* tuples of 1 to MaxTupleArity + 1 fields; the longest has no Truthy impl
TupleValues ==
    {Tuple([i \in 1..n |-> e]) : n \in 1..(MaxTupleArity + 1),
                                 e \in {Unit, Bool(FALSE), Char("c")}}
      \cup {Tuple(<<IntVal("i32", OneByte(4, 1, 1)), Str("&str", <<"x">>), Char("c")>>)}

Leaf ==
    {Unit, Bool(TRUE), Bool(FALSE),
     IntVal("u32", ZeroBytes(4)), IntVal("u32", OneByte(4, 1, 1)),
     Str("&str", <<>>), Str("&str", <<"x">>)}

\* Option, Result and Either values nested to depth d
RECURSIVE Nested(_)
Nested(d) ==
    IF d = 0 THEN Leaf
    ELSE LET P == Nested(d - 1) IN
         P \cup {None(T) : T \in AbsentTypes}
           \cup {Some(v) : v \in P} \cup {Ok(v) : v \in P}
           \cup {Err(e, T) : e \in P \cup {Char("c")}, T \in AbsentTypes}
           \cup {Left(v, T) : v \in P, T \in AbsentTypes}
           \cup {Right(v, T) : v \in P, T \in AbsentTypes}

Values ==
    UNION {IntValues(t) : t \in IntTypes}
      \cup UNION {FloatValues(t) : t \in FloatTypes}
      \cup StrValues \cup SliceValues \cup TupleValues \cup Nested(MaxDepth)

\* the values passed as `other`
Others == {Char("t"), Unit, Bool(TRUE)}

\* whether a type has an impl of Truthy: the where clauses of the impls
\* bind the type parameters (Option<T> and Result<T, E> need T: Truthy,
\* Either<L, R> needs L: Truthy and R: Truthy), whichever variant a value is
RECURSIVE TypeImplements(_)
TypeImplements(T) ==
    CASE T.ty \in IntTypes \cup FloatTypes \cup {"bool", "unit", "str", "&str", "slice"} -> TRUE
      [] T.ty = "tuple" -> T.arity \in 1..MaxTupleArity
      [] T.ty \in {"option", "result"} -> TypeImplements(T.arg)
      [] T.ty = "either" -> TypeImplements(T.l) /\ TypeImplements(T.r)
      [] OTHER -> FALSE

\* whether v.truthy() compiles
Implements(v) == TypeImplements(TypeOf(v))

\* str and [T] are unsized: methods taking self by value need Self: Sized
Sized(v) == v.ty \notin {"str", "slice"}

(***************************************************************************)
(* The implementations of Truthy::truthy.                                  *)
(***************************************************************************)
RECURSIVE Truthy(_)

\* a mutant: *self > 0
TruthyNumPositive(v) ==
    ~(v.bytes = ZeroBytes(SizeOf(v.ty))) /\ ~IsNegative(v)

\* impl_truthy_num!: !self.eq(&FALSY) with FALSY = 0
TruthyNum(v) == ~(v.bytes = ZeroBytes(SizeOf(v.ty)))

\* impl_truthy_tuple!
TruthyTuple(v) == TRUE

TruthyBool(v) == v.b

\* !self.eq(&0f32), !self.eq(&0f64)
TruthyFloat(v) == ~FloatEq(v, Float(v.ty, 0, 0, 0))

TruthyUnit(v) == FALSE

\* str and &str: !self.is_empty()
TruthyStr(v) == ~(Len(v.chars) = 0)

\* a mutant: self.is_some()
TruthyOptionIsSome(v) == v.tag = "Some"

TruthyOption(v) == IF v.tag = "Some" THEN Truthy(v.inner) ELSE FALSE

\* a mutant: self.is_ok()
TruthyResultIsOk(v) == v.tag = "Ok"

TruthyResult(v) == IF v.tag = "Ok" THEN Truthy(v.inner) ELSE FALSE

TruthyEither(v) ==
    CASE v.tag = "Left" -> Truthy(v.inner)
      [] v.tag = "Right" -> Truthy(v.inner)

\* a mutant: self.iter().any(|x| x.truthy())
TruthySliceAny(v) ==
    \E i \in 1..Len(v.elems) : Implements(v.elems[i]) /\ Truthy(v.elems[i])

\* [T]: self.len() > 0
TruthySlice(v) == Len(v.elems) > 0

\* v.truthy(): the impl the type of v selects
Truthy(v) ==
    CASE v.ty \in IntTypes -> TruthyNum(v)
      [] v.ty \in FloatTypes -> TruthyFloat(v)
      [] v.ty = "tuple" -> TruthyTuple(v)
      [] v.ty = "bool" -> TruthyBool(v)
      [] v.ty = "unit" -> TruthyUnit(v)
      [] v.ty \in {"str", "&str"} -> TruthyStr(v)
      [] v.ty = "option" -> TruthyOption(v)
      [] v.ty = "result" -> TruthyResult(v)
      [] v.ty = "either" -> TruthyEither(v)
      [] v.ty = "slice" -> TruthySlice(v)

(***************************************************************************)
(* The provided methods of the trait.  No impl block defines any of them,  *)
(* so every type gets these bodies.                                        *)
(***************************************************************************)
\* a mutant: floats override falsy as a comparison of the bits with +0.0
FalsyFloatBits(v) ==
    IF v.ty \in FloatTypes THEN v = Float(v.ty, 0, 0, 0) ELSE ~Truthy(v)

Falsy(v) == ~Truthy(v)

\* a mutant: the branches swapped
TruthyOrSwapped(self, other) ==
    IF Truthy(self) THEN Right(other, TypeOf(self)) ELSE Left(self, TypeOf(other))

\* the value returned is an Either<Self, T>
TruthyOr(self, other) ==
    IF Truthy(self) THEN Left(self, TypeOf(other)) ELSE Right(other, TypeOf(self))

\* the value returned is an Option<T>
TruthyAnd(self, other) == IF Truthy(self) THEN Some(other) ELSE None(TypeOf(other))

\* or_else(self, f): self when truthy, else the value f produces.  This
\* method is not among the provided methods of the trait in lib.rs; it is
\* modelled from the specification's description of it.
\* a mutant: the producer runs whatever self is
OrElseEager(self) == TRUE

OrElseInvokes(self) == Falsy(self)
OrElseReturn(self, produced) == IF OrElseInvokes(self) THEN produced ELSE self

\* the values a producer passed to or_else may return (of the type of self)
Pool ==
    Nested(1)
      \cup {IntVal(t, ZeroBytes(SizeOf(t))) : t \in IntTypes}
      \cup {IntVal(t, OneByte(SizeOf(t), 1, 1)) : t \in IntTypes}
      \cup {Float(t, 0, e, 0) : t \in FloatTypes, e \in {0, 1}}
      \cup {Tuple(<<Unit>>)}
Producers(self) == {[ty |-> "fn", out |-> w] : w \in {x \in Pool : TypeOf(x) = TypeOf(self)}}

(***************************************************************************)
(* The truthy! macro.  A token stream is a sequence of tokens with         *)
(* balanced parentheses; a token tree ($x:tt) is one token other than a    *)
(* parenthesis, or a parenthesized group.                                  *)
(***************************************************************************)
Idents == {"a", "b", "c"}
Tok == Idents \cup {"!", "&&", "||", "(", ")"}

Count(ts, i, t) == Cardinality({j \in 1..i : ts[j] = t})
DepthAt(ts, i) == Count(ts, i, "(") - Count(ts, i, ")")
Balanced(ts) ==
    /\ \A i \in 1..Len(ts) : DepthAt(ts, i) >= 0
    /\ DepthAt(ts, Len(ts)) = 0

\* for a stream that starts with "(": the position of the ")" closing it
Close(ts) == CHOOSE i \in 1..Len(ts) :
                 /\ DepthAt(ts, i) = 0
                 /\ \A j \in 1..(i - 1) : DepthAt(ts, j) > 0
StartsWithGroup(ts) == Len(ts) >= 1 /\ ts[1] = "("
\* ( $( $tokens:tt )+ ): a group that is not empty
Interior(ts) == SubSeq(ts, 2, Close(ts) - 1)
AfterGroup(ts) == SubSeq(ts, Close(ts) + 2, Len(ts))
AfterIdent(ts) == SubSeq(ts, 3, Len(ts))

\* the expressions the macro expands to
Call(i, pos) == [k |-> "call", id |-> i, pos |-> pos]
Not(e) == [k |-> "not", e |-> e]
Paren(e) == [k |-> "paren", e |-> e]
And(l, r) == [k |-> "and", l |-> l, r |-> r]
Or(l, r) == [k |-> "or", l |-> l, r |-> r]
\* error: no rules expected this token in macro call
NoRule == [k |-> "error"]
Failed(e) == e.k = "error"

\* the matchers of the seven rules
NotMatches(ts) == Len(ts) >= 2 /\ ts[1] = "!"
GroupMatches(ts) ==
    StartsWithGroup(ts) /\ Close(ts) >= 3 /\ Close(ts) = Len(ts)
GroupOpMatches(ts, o) ==
    /\ StartsWithGroup(ts) /\ Close(ts) >= 3
    /\ Len(ts) >= Close(ts) + 2 /\ ts[Close(ts) + 1] = o
\* a mutant: $i:tt in place of $i:ident
IdentMatchesAnyToken(ts) == Len(ts) = 1 /\ ts[1] \notin {"(", ")"}

IdentMatches(ts) == Len(ts) = 1 /\ ts[1] \in Idents
IdentOpMatches(ts, o) == Len(ts) >= 3 /\ ts[1] \in Idents /\ ts[2] = o

\* the transcribers of the seven rules; a nested truthy!( ... ) is one
\* expression of the output, whatever it expands to
NotOut(rest) == Not(rest)
GroupOut(inner) == Paren(inner)
GroupAndOut(inner, rest) == And(Paren(inner), rest)
GroupOrOut(inner, rest) == Or(Paren(inner), rest)
IdentOut(i, pos) == Call(i, pos)
\* a mutant: the operands transcribed in the other order
IdentAndOutSwapped(i, pos, rest) == And(rest, Call(i, pos))

IdentAndOut(i, pos, rest) == And(Call(i, pos), rest)
IdentOrOut(i, pos, rest) == Or(Call(i, pos), rest)

\* truthy!(ts), ts starting at position off of the stream written in the
\* source: the first rule that matches is transcribed, and the nested
\* invocations are expanded in turn; an invocation no rule matches is a
\* compile error
RECURSIVE Expand(_, _)
Expand(ts, off) ==
    LET rest1 == Expand(Tail(ts), off + 1)
        inner == Expand(Interior(ts), off + 1)
        restG == Expand(AfterGroup(ts), off + Close(ts) + 1)
        restI == Expand(AfterIdent(ts), off + 2)
    IN  CASE NotMatches(ts) ->
               IF Failed(rest1) THEN NoRule ELSE NotOut(rest1)
          [] GroupMatches(ts) ->
               IF Failed(inner) THEN NoRule ELSE GroupOut(inner)
          [] GroupOpMatches(ts, "&&") ->
               IF Failed(inner) \/ Failed(restG) THEN NoRule
               ELSE GroupAndOut(inner, restG)
          [] GroupOpMatches(ts, "||") ->
               IF Failed(inner) \/ Failed(restG) THEN NoRule
               ELSE GroupOrOut(inner, restG)
          [] IdentMatches(ts) -> IdentOut(ts[1], off)
          [] IdentOpMatches(ts, "&&") ->
               IF Failed(restI) THEN NoRule ELSE IdentAndOut(ts[1], off, restI)
          [] IdentOpMatches(ts, "||") ->
               IF Failed(restI) THEN NoRule ELSE IdentOrOut(ts[1], off, restI)
          [] OTHER -> NoRule

\* the values bound to the identifiers: 0u8 and 1u8
EnvValues == {IntVal("u8", <<0>>), IntVal("u8", <<1>>)}
Envs == [Idents -> EnvValues]

\* evaluation of the expanded expression: the value, and the positions
\* whose .truthy() was called, in the order of the calls
RECURSIVE Eval(_, _)
Eval(x, e) ==
    CASE x.k = "call" -> [v |-> Truthy(e[x.id]), calls |-> <<x.pos>>]
      [] x.k = "not" ->
           LET r == Eval(x.e, e) IN [v |-> ~r.v, calls |-> r.calls]
      [] x.k = "paren" -> Eval(x.e, e)
      [] x.k = "and" ->
           LET l == Eval(x.l, e)
               r == Eval(x.r, e)
           IN  IF l.v THEN [v |-> r.v, calls |-> l.calls \o r.calls]
               ELSE [v |-> FALSE, calls |-> l.calls]
      [] x.k = "or" ->
           LET l == Eval(x.l, e)
               r == Eval(x.r, e)
           IN  IF l.v THEN [v |-> TRUE, calls |-> l.calls]
               ELSE [v |-> r.v, calls |-> l.calls \o r.calls]

(***************************************************************************)
(* The state machine of the trait: a method is called on a value.          *)
(***************************************************************************)
InitTrait ==
    /\ val \in Values
    /\ arg = Nil /\ op = "none" /\ pc = "ready" /\ ret = Nil /\ fcalls = 0
    \* no macro invocation
    /\ tokens = <<>> /\ stage = "idle" /\ expansion = Nil /\ env = Nil
    /\ result = Nil /\ calls = <<>>

CallTruthy ==
    /\ pc = "ready" /\ Implements(val)
    /\ op' = "truthy" /\ ret' = Bool(Truthy(val)) /\ pc' = "done"
    /\ UNCHANGED <<val, arg, fcalls, macroVars>>

CallFalsy ==
    /\ pc = "ready" /\ Implements(val)
    /\ op' = "falsy" /\ ret' = Bool(Falsy(val)) /\ pc' = "done"
    /\ UNCHANGED <<val, arg, fcalls, macroVars>>

CallTruthyOr ==
    /\ pc = "ready" /\ Implements(val) /\ Sized(val)
    /\ \E other \in Others :
         /\ arg' = other
         /\ ret' = TruthyOr(val, other)
    /\ op' = "truthy_or" /\ pc' = "done"
    /\ UNCHANGED <<val, fcalls, macroVars>>

CallTruthyAnd ==
    /\ pc = "ready" /\ Implements(val) /\ Sized(val)
    /\ \E other \in Others :
         /\ arg' = other
         /\ ret' = TruthyAnd(val, other)
    /\ op' = "truthy_and" /\ pc' = "done"
    /\ UNCHANGED <<val, fcalls, macroVars>>

CallOrElse ==
    /\ pc = "ready" /\ Implements(val) /\ Sized(val)
    /\ \E f \in Producers(val) : arg' = f
    /\ op' = "or_else" /\ pc' = "or_else"
    /\ UNCHANGED <<val, ret, fcalls, macroVars>>

\* the producer runs
OrElseInvoke ==
    /\ pc = "or_else" /\ OrElseInvokes(val)
    /\ fcalls' = fcalls + 1
    /\ ret' = OrElseReturn(val, arg.out)
    /\ pc' = "done"
    /\ UNCHANGED <<val, arg, op, macroVars>>

\* or_else returns without running the producer
OrElseKeep ==
    /\ pc = "or_else" /\ ~OrElseInvokes(val)
    /\ ret' = OrElseReturn(val, Nil)
    /\ pc' = "done"
    /\ UNCHANGED <<val, arg, op, fcalls, macroVars>>

NextTrait ==
    \/ CallTruthy
    \/ CallFalsy
    \/ CallTruthyOr
    \/ CallTruthyAnd
    \/ CallOrElse
    \/ OrElseInvoke
    \/ OrElseKeep

Spec == InitTrait /\ [][NextTrait]_vars

(***************************************************************************)
(* The state machine of the macro: a stream is expanded at compile time,   *)
(* and the expansion is evaluated at run time.                             *)
(***************************************************************************)
InitMacro ==
    /\ \E n \in 0..MaxLen :
         /\ tokens \in [1..n -> Tok]
         /\ Balanced(tokens)
    /\ stage = "source" /\ expansion = Nil /\ env = Nil /\ result = Nil
    /\ calls = <<>>
    \* no trait method call
    /\ val = Nil /\ arg = Nil /\ op = "none" /\ pc = "idle" /\ ret = Nil
    /\ fcalls = 0

ExpandMacro ==
    /\ stage = "source"
    /\ expansion' = Expand(tokens, 1)
    /\ stage' = IF Failed(expansion') THEN "rejected" ELSE "expanded"
    /\ UNCHANGED <<tokens, env, result, calls, traitVars>>

Evaluate ==
    /\ stage = "expanded"
    /\ \E e \in Envs :
         /\ env' = e
         /\ result' = Bool(Eval(expansion, e).v)
         /\ calls' = Eval(expansion, e).calls
    /\ stage' = "evaluated"
    /\ UNCHANGED <<tokens, expansion, traitVars>>

NextMacro ==
    \/ ExpandMacro
    \/ Evaluate

SpecMacro == InitMacro /\ [][NextMacro]_vars

(***************************************************************************)
(* Properties of the trait, checked under Spec.                            *)
(***************************************************************************)
Returned(m) == pc = "done" /\ op = m

\* C2: for every value of a type that implements Truthy, falsy() returns
\* the negation of what truthy() returns.
FalsyNegatesTruthy == Returned("falsy") => ret = Bool(~Truthy(val))
FalsyNegatesTruthyWitness ==
    /\ Returned("falsy") /\ ret = Bool(TRUE)
    /\ val.ty = "option" /\ val.tag = "Some"

\* C3: an Option is truthy exactly when it is Some(v) with v truthy; None,
\* Some(0u32) and Some(()) are falsy, and the rule applies to nested options.
OptionTruthyIffSomeTruthy ==
    (Returned("truthy") /\ val.ty = "option") =>
        /\ ret = Bool(val.tag = "Some" /\ Truthy(val.inner))
        /\ val.tag = "None" => ret = Bool(FALSE)
        /\ val = Some(IntVal("u32", ZeroBytes(4))) => ret = Bool(FALSE)
        /\ val = Some(IntVal("u32", OneByte(4, 1, 1))) => ret = Bool(TRUE)
        /\ val = Some(Unit) => ret = Bool(FALSE)
        /\ val = Some(None([ty |-> "bool"])) => ret = Bool(FALSE)
        /\ val = Some(Some(IntVal("u32", ZeroBytes(4)))) => ret = Bool(FALSE)
        /\ val = Some(Some(IntVal("u32", OneByte(4, 1, 1)))) => ret = Bool(TRUE)
OptionTruthyWitness ==
    /\ Returned("truthy") /\ ret = Bool(FALSE)
    /\ val = Some(Some(IntVal("u32", ZeroBytes(4))))

\* C4: a Result is truthy exactly when it is Ok(v) with v truthy; every
\* Err(e) is falsy, also when e is truthy or of a type that is not Truthy.
ResultTruthyIffOkTruthy ==
    (Returned("truthy") /\ val.ty = "result") =>
        /\ ret = Bool(val.tag = "Ok" /\ Truthy(val.inner))
        /\ val.tag = "Err" => ret = Bool(FALSE)
        /\ val = Ok(Bool(FALSE)) => ret = Bool(FALSE)
ResultTruthyWitness ==
    /\ Returned("truthy") /\ ret = Bool(FALSE)
    /\ val = Err(Bool(TRUE), [ty |-> "bool"])

\* C5: an integer of any of the twelve types is truthy exactly when it is
\* not 0: some bit of it is set.  Negative values, MIN and MAX are truthy.
IntTruthyIffNonZero ==
    (Returned("truthy") /\ val.ty \in IntTypes) =>
        /\ ret = Bool(\E i \in 1..Len(val.bytes) : val.bytes[i] # 0)
        /\ (IsNegative(val) \/ IsMin(val) \/ IsMax(val)) => ret = Bool(TRUE)
IntTruthyWitness ==
    /\ Returned("truthy") /\ ret = Bool(TRUE)
    /\ val.ty = "i128" /\ IsMin(val)

\* the number of elements of a slice, of bytes of a string
SeqLength(v) == IF v.ty = "slice" THEN Len(v.elems) ELSE Len(v.chars)

\* C6: a slice or a string is truthy exactly when its length is greater
\* than 0, whatever the truthiness of its elements.
SequenceTruthyIffNonEmpty ==
    (Returned("truthy") /\ val.ty \in {"slice", "str", "&str"}) =>
        /\ ret = Bool(SeqLength(val) > 0)
        /\ val = Slice(<<Unit, Unit, Unit>>) => ret = Bool(TRUE)
        /\ val = Str("&str", <<" ">>) => ret = Bool(TRUE)
SequenceTruthyWitness ==
    /\ Returned("truthy") /\ ret = Bool(TRUE)
    /\ val = Slice(<<Unit, Unit, Unit>>)

\* C7: truthy_or returns Left(self) when self is truthy and Right(other)
\* when it is falsy, self and other unchanged.
TruthyOrLeftOrRight ==
    Returned("truthy_or") =>
        /\ Truthy(val) => (ret.tag = "Left" /\ ret.inner = val)
        /\ ~Truthy(val) => (ret.tag = "Right" /\ ret.inner = arg)
        /\ TypeOf(ret) = [ty |-> "either", l |-> TypeOf(val), r |-> TypeOf(arg)]
        /\ ret.tag = "Left" => Truthy(val)
        /\ ret.tag = "Right" => ~Truthy(val)
TruthyOrWitness ==
    /\ Returned("truthy_or") /\ ret.tag = "Right" /\ ret.inner = Char("t")
    /\ val = Ok(Unit)

\* C9: or_else returns self without running the producer when self is
\* truthy, and runs it exactly once and returns what it produced when self
\* is falsy; the producer never runs more than once.
OrElseIsLazy ==
    /\ fcalls <= 1
    /\ Returned("or_else") =>
         /\ Truthy(val) => (ret = val /\ fcalls = 0)
         /\ ~Truthy(val) => (ret = arg.out /\ fcalls = 1)
    /\ (op = "or_else" /\ pc = "or_else") => fcalls = 0
OrElseWitness ==
    /\ Returned("or_else") /\ fcalls = 0
    /\ val = Some(Bool(TRUE)) /\ arg.out = None([ty |-> "bool"])

(***************************************************************************)
(* Properties of the macro, checked under SpecMacro.                       *)
(***************************************************************************)
Max(S) == CHOOSE x \in S : \A y \in S : y <= x
TopLevel(ts, o) == {i \in 1..Len(ts) : ts[i] = o /\ DepthAt(ts, i) = 0}

\* the value of the stream read as a Rust expression with .truthy()
\* written after every identifier: "!" binds tighter than "&&", "&&"
\* tighter than "||", and the binary operators associate to the left
RECURSIVE NativeVal(_, _)
NativeVal(ts, e) ==
    LET ors == TopLevel(ts, "||")
        ands == TopLevel(ts, "&&")
    IN  IF ors # {}
        THEN \/ NativeVal(SubSeq(ts, 1, Max(ors) - 1), e)
             \/ NativeVal(SubSeq(ts, Max(ors) + 1, Len(ts)), e)
        ELSE IF ands # {}
        THEN /\ NativeVal(SubSeq(ts, 1, Max(ands) - 1), e)
             /\ NativeVal(SubSeq(ts, Max(ands) + 1, Len(ts)), e)
        ELSE IF ts[1] = "!" THEN ~NativeVal(Tail(ts), e)
        ELSE IF ts[1] = "(" THEN NativeVal(SubSeq(ts, 2, Len(ts) - 1), e)
        ELSE Truthy(e[ts[1]])

\* C1: the value of the expansion of an accepted stream is the value of
\* the stream as a native expression over the .truthy() of its identifiers.
ExpansionEqualsNative ==
    stage = "evaluated" => result = Bool(NativeVal(tokens, env))

\* the five shapes, recursively
RECURSIVE WellFormed(_)
WellFormed(ts) ==
    /\ Len(ts) >= 1
    /\ \/ ts[1] = "!" /\ Len(ts) >= 2 /\ WellFormed(Tail(ts))
       \/ /\ ts[1] = "("
          /\ \E m \in 3..Len(ts) :
               /\ ts[m] = ")"
               /\ Balanced(SubSeq(ts, 2, m - 1))
               /\ WellFormed(SubSeq(ts, 2, m - 1))
               /\ \/ m = Len(ts)
                  \/ /\ Len(ts) >= m + 2
                     /\ ts[m + 1] \in {"&&", "||"}
                     /\ WellFormed(SubSeq(ts, m + 2, Len(ts)))
       \/ /\ ts[1] \in Idents
          /\ \/ Len(ts) = 1
             \/ /\ Len(ts) >= 3
                /\ ts[2] \in {"&&", "||"}
                /\ WellFormed(SubSeq(ts, 3, Len(ts)))

Malformed ==
    {<<"a", "&&">>, <<"a", "&&", "||", "b">>, <<"(", ")">>, <<"!">>,
     <<"a", "b">>, <<>>}

\* C8: a stream is expanded exactly when it is, recursively, one of the
\* five shapes; every other stream is rejected, yields no expression and
\* is never evaluated.
MalformedIsRejected ==
    /\ stage \in {"expanded", "evaluated"} => WellFormed(tokens)
    /\ stage = "rejected" =>
         /\ ~WellFormed(tokens)
         /\ expansion = NoRule /\ result = Nil /\ calls = <<>>
    /\ (stage # "source" /\ tokens \in Malformed) => stage = "rejected"
MalformedWitness ==
    stage = "rejected" /\ tokens = <<"a", "&&", "||", "b">>

\* the sub-expressions of an expression, and the positions of its calls
RECURSIVE Nodes(_)
Nodes(x) ==
    {x} \cup CASE x.k \in {"not", "paren"} -> Nodes(x.e)
               [] x.k \in {"and", "or"} -> Nodes(x.l) \cup Nodes(x.r)
               [] OTHER -> {}
Leaves(x) == {n.pos : n \in {m \in Nodes(x) : m.k = "call"}}
Called == {calls[i] : i \in 1..Len(calls)}

\* C10: truthy is called on identifier occurrences in source order, at
\* most once each; in every L && R (L || R) of the expansion the calls of L
\* come before those of R, and no identifier of R has truthy called when L
\* is false (true).
ShortCircuitOrder ==
    stage = "evaluated" =>
        /\ \A i \in 1..Len(calls) : tokens[calls[i]] \in Idents
        /\ \A i, j \in 1..Len(calls) : i < j => calls[i] < calls[j]
        /\ \A n \in Nodes(expansion) :
             n.k \in {"and", "or"} =>
               /\ n.l.k \in {"call", "paren"}
               /\ \A i, j \in 1..Len(calls) :
                    (calls[i] \in Leaves(n.l) /\ calls[j] \in Leaves(n.r)) => i < j
               /\ (n.k = "and" /\ ~Eval(n.l, env).v) => Called \cap Leaves(n.r) = {}
               /\ (n.k = "or" /\ Eval(n.l, env).v) => Called \cap Leaves(n.r) = {}
ShortCircuitWitness ==
    /\ stage = "evaluated"
    /\ tokens = <<"(", "a", ")", "&&", "b">>
    /\ calls = <<2>> /\ result = Bool(FALSE)
====
